---- MODULE Spec2Model ----
(***************************************************************************)
(* Admin dashboard: page-window calculation of the two Pagination          *)
(* components, the status panel, the create / edit addon forms, the        *)
(* addons list and the property fetch of the Workspace page.               *)
(*                                                                         *)
(* Texts (form fields, fields of the status snapshot) are sequences of     *)
(* one-character strings, so that trim, Number, parseFloat and the         *)
(* case-insensitive pattern tests are computed the way the code computes   *)
(* them.  A literal of the code that is only displayed is a one-element    *)
(* sequence holding the whole literal.                                     *)
(***************************************************************************)
EXTENDS Integers, Sequences, FiniteSets, TLC

VARIABLES
    listProps,      \* props of the addons-list Pagination (pagination object)
    listPages,      \* its `pages` memo
    wsProps,        \* props of the Workspace (property-list) Pagination
    wsPages,        \* its `pages` array
    statuses,       \* status panel: statuses state (<<>>: null)
    statusError,    \* status panel: error state (Undef: null)
    statusLoading,  \* status panel: loading state
    statusDead,     \* status panel: the effect's `dead` flag
    statusReq,      \* status panel: the GET /status request
    statusGets,     \* status panel: number of GET /status issued
    statusData,     \* status panel: <<res.data>> of the response handled last
    statusLevels,   \* status panel: the levels toStatuses computed last
    cForm,          \* create form: form state (title, description, value)
    cError,         \* create form: error state (Undef: null)
    cSuccess,       \* create form: success state (Undef: null)
    cSubmitting,    \* create form: submitting state
    cPending,       \* create form: pending flag of useTransition
    cReq,           \* create form: <<body>> of the POST in flight, or <<>>
    cPosts,         \* create form: number of POST /api/addons/create sent
    cTimers,        \* create form: redirect timers not yet fired
    cRedirects,     \* create form: number of router.replace("/addons") run
    cMounted,       \* create form: the form instance is on screen
    eParams,        \* edit form: id and initial values of the search params
    eFields,        \* edit form: title, description, value, status states
    eError,         \* edit form: error state (Undef: null)
    eSaving,        \* edit form: saving state
    eReq,           \* edit form: <<body>> of the PATCH in flight, or <<>>
    ePatches,       \* edit form: number of PATCH /api/addons/edit sent
    eTimers,        \* edit form: redirect timers not yet fired
    eRedirects,     \* edit form: number of router.replace("/addons") run
    eMounted,       \* edit form: the form instance is on screen
    lPage,          \* addons list: page of the search params
    lLimit,         \* addons list: limit of the search params
    lAddons,        \* addons list: addons state
    lPagination,    \* addons list: pagination state
    lLoading,       \* addons list: loading state
    lErr,           \* addons list: err state (Undef: null)
    lReqs,          \* addons list: the GET /api/addons/fetch not yet answered
    lIssued,        \* addons list: number of GET /api/addons/fetch issued
    lMounted,       \* addons list: the view is on screen
    wPc,            \* Workspace page: where the render of WorkspacePage is
    wArgs,          \* Workspace page: page and limit passed to fetchProperties
    wTimer,         \* fetchProperties: the 15 s timeout timer
    wAborted,       \* fetchProperties: controller.abort() has been called
    wResponded,     \* fetchProperties: fetch resolved with a response
    wError,         \* Workspace page: message of the error thrown (Undef: none)
    wData           \* Workspace page: <<data>> fetchProperties returned, or <<>>

windowVars == <<listProps, listPages, wsProps, wsPages>>

statusVars ==
    <<statuses, statusError, statusLoading, statusDead, statusReq, statusGets,
      statusData, statusLevels>>

createVars ==
    <<cForm, cError, cSuccess, cSubmitting, cPending, cReq, cPosts, cTimers,
      cRedirects, cMounted>>

editVars ==
    <<eParams, eFields, eError, eSaving, eReq, ePatches, eTimers, eRedirects,
      eMounted>>

listVars ==
    <<lPage, lLimit, lAddons, lPagination, lLoading, lErr, lReqs, lIssued,
      lMounted>>

workspaceVars == <<wPc, wArgs, wTimer, wAborted, wResponded, wError, wData>>

vars ==
    <<windowVars, statusVars, createVars, editVars, listVars, workspaceVars>>

exceptWindow == <<statusVars, createVars, editVars, listVars, workspaceVars>>

exceptStatus == <<windowVars, createVars, editVars, listVars, workspaceVars>>

exceptCreate == <<windowVars, statusVars, editVars, listVars, workspaceVars>>

exceptEdit == <<windowVars, statusVars, createVars, listVars, workspaceVars>>

exceptList == <<windowVars, statusVars, createVars, editVars, workspaceVars>>

exceptWorkspace == <<windowVars, statusVars, createVars, editVars, listVars>>

\* ------------------------------------------------------------------ bounds

\* Largest totalPages a backend response carries.
MaxPages == 12

\* Largest CPU load of a status snapshot, in hundredths.
MaxCpuHundredths == 200

\* Largest memory usage percent of a status snapshot, in tenths.
MaxMemTenths == 1000

\* Most requests one form instance sends.
MaxSubmits == 2

\* Most requests one addons-list view issues.
MaxFetches == 3

\* Largest totalPages a response to the addons list carries.
MaxListTotal == 3

\* ------------------------------------------------------- numeric helpers

Max(a, b) == IF a >= b THEN a ELSE b

Min(a, b) == IF a <= b THEN a ELSE b

\* Array.from({ length: end - start + 1 }, (_, i) => start + i)
\* (a length <= 0 gives the empty array)
ArrayFrom(start, end) ==
    IF end - start + 1 <= 0 THEN <<>>
    ELSE [i \in 1..(end - start + 1) |-> start + i - 1]

\* ------------------------------------------------------------------ texts

\* undefined / null (a missing field, a null state)
Undef == <<"undefined">>

\* x || y
OrElse(x, y) == IF x = Undef \/ x = <<>> THEN y ELSE x

DigitChars == <<"0", "1", "2", "3", "4", "5", "6", "7", "8", "9">>

IsDigit(c) == \E i \in 1..10 : DigitChars[i] = c

DigitVal(c) == (CHOOSE i \in 1..10 : DigitChars[i] = c) - 1

IsSpace(c) == c \in {" ", "\t", "\n"}

UpperChars ==
    <<"A", "B", "C", "D", "E", "F", "G", "H", "I", "J", "K", "L", "M",
      "N", "O", "P", "Q", "R", "S", "T", "U", "V", "W", "X", "Y", "Z">>

LowerChars ==
    <<"a", "b", "c", "d", "e", "f", "g", "h", "i", "j", "k", "l", "m",
      "n", "o", "p", "q", "r", "s", "t", "u", "v", "w", "x", "y", "z">>

ToLower(c) ==
    IF \E i \in 1..26 : UpperChars[i] = c
    THEN LowerChars[CHOOSE i \in 1..26 : UpperChars[i] = c]
    ELSE c

StartsWith(s, p) == Len(s) >= Len(p) /\ SubSeq(s, 1, Len(p)) = p

RECURSIVE TrimStart(_)
TrimStart(s) ==
    IF s # <<>> /\ IsSpace(Head(s)) THEN TrimStart(Tail(s)) ELSE s

RECURSIVE TrimEnd(_)
TrimEnd(s) ==
    IF s # <<>> /\ IsSpace(s[Len(s)]) THEN TrimEnd(SubSeq(s, 1, Len(s) - 1)) ELSE s

\* String.prototype.trim
Trim(s) == TrimEnd(TrimStart(s))

\* /pat/i.test(s) for a pattern of plain lower-case characters
RegexTestCI(pat, s) ==
    \E i \in 1..(Len(s) - Len(pat) + 1) :
        \A j \in 1..Len(pat) : ToLower(s[i + j - 1]) = pat[j]

\* ---------------------------------------------------------------- numbers

\* A JS number: NaN, +-Infinity, or the decimal n / 10^d.
NaN == [k |-> "nan", n |-> 0, d |-> 0]

Infinity(sign) == [k |-> "inf", n |-> sign, d |-> 0]

Num(n, d) == [k |-> "num", n |-> n, d |-> d]

RECURSIVE Pow10(_)
Pow10(d) == IF d = 0 THEN 1 ELSE 10 * Pow10(d - 1)

\* Number.isFinite / isFinite
IsFinite(a) == a.k = "num"

\* A comparison that includes its bound.
LtInclusive(a, b) ==
    CASE a.k = "nan" \/ b.k = "nan" -> FALSE
      [] a.k = "num" /\ b.k = "num" -> a.n * Pow10(b.d) <= b.n * Pow10(a.d)
      [] a.k = "inf" /\ b.k = "inf" -> a.n < b.n
      [] a.k = "inf" -> a.n < 0
      [] OTHER -> b.n > 0

\* a < b
Lt(a, b) ==
    CASE a.k = "nan" \/ b.k = "nan" -> FALSE
      [] a.k = "num" /\ b.k = "num" -> a.n * Pow10(b.d) < b.n * Pow10(a.d)
      [] a.k = "inf" /\ b.k = "inf" -> a.n < b.n
      [] a.k = "inf" -> a.n < 0
      [] OTHER -> b.n > 0

RECURSIVE DigitRun(_)
\* length of the longest prefix of s made of digits
DigitRun(s) ==
    IF s = <<>> \/ ~IsDigit(Head(s)) THEN 0 ELSE 1 + DigitRun(Tail(s))

RECURSIVE DigitsValue(_)
DigitsValue(s) ==
    IF s = <<>> THEN 0
    ELSE 10 * DigitsValue(SubSeq(s, 1, Len(s) - 1)) + DigitVal(s[Len(s)])

InfinityText == <<"I", "n", "f", "i", "n", "i", "t", "y">>

\* The longest prefix of s that is an unsigned decimal literal (digits,
\* digits.digits, digits. or .digits): its length (0: none) and value.
\* Exponents and the 0x / 0b / 0o forms are outside the texts enumerated.
DecimalPrefix(s) ==
    LET i      == DigitRun(s)
        hasDot == Len(s) > i /\ s[i + 1] = "."
        f      == IF hasDot THEN DigitRun(SubSeq(s, i + 2, Len(s))) ELSE 0
        useDot == hasDot /\ i + f > 0
        digits == SubSeq(s, 1, i) \o (IF useDot THEN SubSeq(s, i + 2, i + 1 + f) ELSE <<>>)
    IN  [len |-> IF useDot THEN i + 1 + f ELSE i,
         n   |-> DigitsValue(digits),
         d   |-> IF useDot THEN f ELSE 0]

\* sign and the rest of a text
SignOf(s) == IF s # <<>> /\ s[1] = "-" THEN -1 ELSE 1

Unsigned(s) == IF s # <<>> /\ s[1] \in {"+", "-"} THEN Tail(s) ELSE s

\* parseFloat(s): the longest numeric prefix after leading white space
ParseFloat(s) ==
    LET t   == TrimStart(s)
        u   == Unsigned(t)
        lit == DecimalPrefix(u)
    IN  IF StartsWith(u, InfinityText) THEN Infinity(SignOf(t))
        ELSE IF lit.len = 0 THEN NaN
        ELSE Num(SignOf(t) * lit.n, lit.d)

\* Number(s): the whole trimmed text must be a numeric literal; "" is 0
Number(s) ==
    LET t   == Trim(s)
        u   == Unsigned(t)
        lit == DecimalPrefix(u)
    IN  IF t = <<>> THEN Num(0, 0)
        ELSE IF u = InfinityText THEN Infinity(SignOf(t))
        ELSE IF lit.len = 0 \/ lit.len # Len(u) THEN NaN
        ELSE Num(SignOf(t) * lit.n, lit.d)

RECURSIVE NatToStr(_)
NatToStr(n) ==
    IF n < 10 THEN <<DigitChars[n + 1]>>
    ELSE NatToStr(n \div 10) \o <<DigitChars[(n % 10) + 1]>>

RECURSIVE PadDigits(_, _)
\* the last d digits of n, zero-padded
PadDigits(n, d) ==
    IF d = 0 THEN <<>>
    ELSE PadDigits(n \div 10, d - 1) \o <<DigitChars[(n % 10) + 1]>>

\* The text "i.ff" of n / 10^d, n >= 0, with exactly d decimals (the format
\* of the numeric fields of the status snapshot, e.g. "0.00", "78.91").
Fixed(n, d) ==
    NatToStr(n \div Pow10(d))
        \o (IF d = 0 THEN <<>> ELSE <<".">> \o PadDigits(n % Pow10(d), d))

Abs(n) == IF n < 0 THEN -n ELSE n

RECURSIVE Normalize(_)
\* drop trailing zero decimals
Normalize(a) ==
    IF a.d > 0 /\ a.n % 10 = 0 THEN Normalize(Num(a.n \div 10, a.d - 1)) ELSE a

\* String(x) for the magnitudes enumerated (no exponent form)
NumToString(a) ==
    CASE a.k = "nan" -> <<"N", "a", "N">>
      [] a.k = "inf" -> (IF a.n < 0 THEN <<"-">> ELSE <<>>) \o InfinityText
      [] OTHER ->
           LET b == Normalize(a)
           IN  (IF b.n < 0 THEN <<"-">> ELSE <<>>) \o Fixed(Abs(b.n), b.d)

\* x.toFixed(0): round half away from zero
ToFixed0(a) ==
    CASE a.k = "nan" -> <<"N", "a", "N">>
      [] a.k = "inf" -> (IF a.n < 0 THEN <<"-">> ELSE <<>>) \o InfinityText
      [] OTHER ->
           (IF a.n < 0 THEN <<"-">> ELSE <<>>)
               \o NatToStr((2 * Abs(a.n) + Pow10(a.d)) \div (2 * Pow10(a.d)))

\* ------------------------------------------------------------ Pagination

windowSize == 5

\* A variant of the addons-list window without its re-clamp step.
ListPagesNoReclamp(currentPage, totalPages) ==
    LET half  == windowSize \div 2
        start == Max(1, currentPage - half)
        end   == Min(totalPages, start + windowSize - 1)
    IN  ArrayFrom(start, end)

\* A variant of the addons-list window that is not centred (half = 1).
ListPagesOffCentre(currentPage, totalPages) ==
    LET half   == 1
        start0 == Max(1, currentPage - half)
        end    == Min(totalPages, start0 + windowSize - 1)
        start  == Max(1, Min(start0, end - windowSize + 1))
    IN  ArrayFrom(start, end)

\* addons list: const pages = useMemo(...)
ListPages(currentPage, totalPages) ==
    LET half   == windowSize \div 2
        start0 == Max(1, currentPage - half)
        end    == Min(totalPages, start0 + windowSize - 1)
        start  == Max(1, Min(start0, end - windowSize + 1))
    IN  ArrayFrom(start, end)

\* Workspace page: start / end / pages (no re-clamp of start)
WorkspacePages(currentPage, totalPages) ==
    LET start == Max(1, currentPage - (windowSize \div 2))
        end   == Min(totalPages, start + windowSize - 1)
    IN  ArrayFrom(start, end)

\* No Pagination rendered yet (pagination is null / page not rendered).
NoProps == [currentPage |-> 0, totalPages |-> 0]

\* The pagination objects a backend response carries: the current page lies
\* inside [1, totalPages].
Paginations ==
    { [currentPage |-> c, totalPages |-> t] : c \in 1..MaxPages, t \in 1..MaxPages }

ValidPaginations == { p \in Paginations : p.currentPage <= p.totalPages }

\* The addons list renders its Pagination with the pagination of a response.
RenderListPagination(p) ==
    /\ listProps' = p
    /\ listPages' = ListPages(p.currentPage, p.totalPages)
    /\ UNCHANGED <<wsProps, wsPages>>
    /\ UNCHANGED exceptWindow

\* The Workspace page renders its Pagination with the pagination of a response.
RenderWorkspacePagination(p) ==
    /\ wsProps' = p
    /\ wsPages' = WorkspacePages(p.currentPage, p.totalPages)
    /\ UNCHANGED <<listProps, listPages>>
    /\ UNCHANGED exceptWindow

\* addons list: const prev = Math.max(1, currentPage - 1)
ListPrev(currentPage) == Max(1, currentPage - 1)

\* addons list: const next = Math.min(totalPages, currentPage + 1)
ListNext(currentPage, totalPages) == Min(totalPages, currentPage + 1)

\* PREV: disabled={currentPage === 1}
ListPrevDisabled(currentPage) == currentPage = 1

\* A NEXT button that is never disabled.
ListNextNeverDisabled(currentPage, totalPages) == FALSE

\* NEXT: disabled={currentPage === totalPages}
ListNextDisabled(currentPage, totalPages) == currentPage = totalPages

\* the pages the enabled buttons of the addons-list Pagination lead to:
\* PREV, the first page, the window, the last page, NEXT
ListClickTargets(currentPage, totalPages) ==
    LET pages == ListPages(currentPage, totalPages)
    IN  (IF ListPrevDisabled(currentPage) THEN {} ELSE {ListPrev(currentPage)})
        \cup (IF pages # <<>> /\ pages[1] > 1 THEN {1} ELSE {})
        \cup { pages[i] : i \in 1..Len(pages) }
        \cup (IF pages # <<>> /\ pages[Len(pages)] < totalPages
              THEN {totalPages} ELSE {})
        \cup (IF ListNextDisabled(currentPage, totalPages)
              THEN {} ELSE {ListNext(currentPage, totalPages)})

\* A button of the addons-list Pagination (rendered when totalPages > 1) is
\* clicked: goToPage(p), and the backend answers with the page requested
\* and the same number of pages.
ListPaginationClick(p) ==
    /\ listProps # NoProps
    /\ listProps.totalPages > 1
    /\ p \in ListClickTargets(listProps.currentPage, listProps.totalPages)
    /\ listProps' = [currentPage |-> p, totalPages |-> listProps.totalPages]
    /\ listPages' = ListPages(p, listProps.totalPages)
    /\ UNCHANGED <<wsProps, wsPages>>
    /\ UNCHANGED exceptWindow

InitWindow ==
    /\ listProps = NoProps
    /\ listPages = <<>>
    /\ wsProps = NoProps
    /\ wsPages = <<>>

NextWindow ==
    \/ \E p \in ValidPaginations : RenderListPagination(p)
    \/ \E p \in ValidPaginations : RenderWorkspacePagination(p)
    \/ \E p \in 0..(MaxPages + 1) : ListPaginationClick(p)

\* ---------------------------------------------------------- status panel

\* pickVariant
PickVariantWarnAsBad(level) ==
    IF level = "ok" THEN "success" ELSE "destructive"

PickVariant(level) ==
    IF level = "ok" THEN "success"
    ELSE IF level = "warn" THEN "warning"
    ELSE "destructive"

ConnectedText == <<"c", "o", "n", "n", "e", "c", "t", "e", "d">>

StartedText == <<"s", "t", "a", "r", "t", "e", "d">>

ServerStartedText == <<"s", "e", "r", "v", "e", "r", " ">> \o StartedText

\* CPU levels with the bounds 0.7 and 1.5 counted into the lower level.
CpuLevelInclusive(api) ==
    LET cpu == ParseFloat(OrElse(api.cpuLoad, <<"0">>))
    IN  IF LtInclusive(cpu, Num(7, 1)) THEN "ok"
        ELSE IF LtInclusive(cpu, Num(15, 1)) THEN "warn"
        ELSE "bad"

\* parseFloat(api.cpuLoad), without the default "0".
CpuNoDefault(api) == ParseFloat(api.cpuLoad)

\* const cpu = parseFloat(api.cpuLoad || "0")
Cpu(api) == ParseFloat(OrElse(api.cpuLoad, <<"0">>))

\* const cpuLevel = cpu < 0.7 ? "ok" : cpu < 1.5 ? "warn" : "bad"
CpuLevel(api) ==
    IF Lt(Cpu(api), Num(7, 1)) THEN "ok"
    ELSE IF Lt(Cpu(api), Num(15, 1)) THEN "warn"
    ELSE "bad"

\* const memPct = parseFloat(api.memory?.usagePercent || "0")
MemPct(api) ==
    ParseFloat(OrElse(IF api.memory.present THEN api.memory.usagePercent ELSE Undef,
                      <<"0">>))

\* Memory levels with the bounds 80 and 95 counted into the lower level.
MemLevelInclusive(api) ==
    IF LtInclusive(MemPct(api), Num(80, 0)) THEN "ok"
    ELSE IF LtInclusive(MemPct(api), Num(95, 0)) THEN "warn"
    ELSE "bad"

\* const memLevel = memPct < 80 ? "ok" : memPct < 95 ? "warn" : "bad"
MemLevel(api) ==
    IF Lt(MemPct(api), Num(80, 0)) THEN "ok"
    ELSE IF Lt(MemPct(api), Num(95, 0)) THEN "warn"
    ELSE "bad"

\* A database test that is case-sensitive.
DbConnectedCaseSensitive(api) ==
    LET s == OrElse(api.dbStatus, <<>>)
    IN  \E i \in 1..(Len(s) - Len(ConnectedText) + 1) :
            SubSeq(s, i, i + Len(ConnectedText) - 1) = ConnectedText

\* const dbConnected = /connected/i.test(api.dbStatus || "")
DbConnected(api) == RegexTestCI(ConnectedText, OrElse(api.dbStatus, <<>>))

DbLevel(api) == IF DbConnected(api) THEN "ok" ELSE "bad"

\* A server test that only knows the pattern "server started".
ServerUpFirstPatternOnly(api) ==
    RegexTestCI(ServerStartedText, OrElse(api.server, <<>>))

\* const serverUp = /server started/i.test(...) || /started/i.test(...)
ServerUp(api) ==
    \/ RegexTestCI(ServerStartedText, OrElse(api.server, <<>>))
    \/ RegexTestCI(StartedText, OrElse(api.server, <<>>))

ServerLevel(api) == IF ServerUp(api) THEN "ok" ELSE "bad"

\* const hookOk = !!api.paymentWebhookStatus?.success
HookOk(api) ==
    /\ api.paymentWebhookStatus.present
    /\ api.paymentWebhookStatus.success = "true"

HookLevel(api) == IF HookOk(api) THEN "ok" ELSE "bad"

\* `${x}` of a field
Template(x) ==
    IF x = Undef THEN <<"u", "n", "d", "e", "f", "i", "n", "e", "d">> ELSE x

\* the five levels toStatuses computes, in the order of its result
Levels(api) ==
    <<ServerLevel(api), DbLevel(api), CpuLevel(api), MemLevel(api), HookLevel(api)>>

\* toStatuses
ToStatuses(api) ==
    << [title   |-> <<"SERVER">>,
        value   |-> IF ServerUp(api) THEN <<"ONLINE">> ELSE <<"OFFLINE">>,
        status  |-> OrElse(api.server, <<"No server info">>),
        variant |-> PickVariant(ServerLevel(api))],
       [title   |-> <<"DATABASE">>,
        value   |-> IF DbConnected(api) THEN <<"CONNECTED">> ELSE <<"DISCONNECTED">>,
        status  |-> OrElse(api.dbStatus, <<"No DB info">>),
        variant |-> PickVariant(DbLevel(api))],
       [title   |-> <<"CPU LOAD">>,
        value   |-> IF IsFinite(Cpu(api)) THEN NumToString(Cpu(api)) ELSE <<"N/A">>,
        status  |-> <<"Lower is better">>,
        variant |-> PickVariant(CpuLevel(api))],
       [title   |-> <<"MEMORY">>,
        value   |-> IF api.memory.present
                    THEN Template(api.memory.usedGB) \o <<"/">>
                             \o Template(api.memory.totalGB) \o <<" GB">>
                    ELSE <<"N/A">>,
        status  |-> IF api.memory.present
                    THEN ToFixed0(MemPct(api)) \o <<"% used">>
                    ELSE <<"No memory info">>,
        variant |-> PickVariant(MemLevel(api))],
       [title   |-> <<"WEBHOOK">>,
        value   |-> IF HookOk(api) THEN <<"ACTIVE">> ELSE <<"INACTIVE">>,
        status  |-> IF api.paymentWebhookStatus.present
                    THEN OrElse(api.paymentWebhookStatus.message,
                                OrElse(api.paymentWebhookStatus.webhookUrl,
                                       <<"No webhook info">>))
                    ELSE <<"No webhook info">>,
        variant |-> PickVariant(HookLevel(api))] >>

\* useState initial values; the effect has not run yet
InitStatus ==
    /\ statuses = <<>>
    /\ statusError = Undef
    /\ statusLoading = TRUE
    /\ statusDead = FALSE
    /\ statusReq = "none"
    /\ statusGets = 0
    /\ statusData = <<>>
    /\ statusLevels = <<>>

\* useEffect(..., []): run() up to its await
StatusMount ==
    /\ statusReq = "none"
    /\ ~statusDead
    /\ statusLoading' = TRUE
    /\ statusError' = Undef
    /\ statusReq' = "pending"
    /\ statusGets' = statusGets + 1
    /\ UNCHANGED <<statuses, statusDead, statusData, statusLevels>>
    /\ UNCHANGED exceptStatus

\* the GET resolves with a response whose data is api
StatusResolve(api) ==
    /\ statusReq = "pending"
    /\ statusReq' = "done"
    /\ IF statusDead
       THEN UNCHANGED <<statuses, statusLoading, statusData, statusLevels>>
       ELSE /\ statuses' = ToStatuses(api)
            /\ statusLevels' = Levels(api)
            /\ statusData' = <<api>>
            /\ statusLoading' = FALSE
    /\ UNCHANGED <<statusError, statusDead, statusGets>>
    /\ UNCHANGED exceptStatus

\* A response without data whose TypeError is not reported.
StatusResolveNoDataSilent ==
    /\ statusReq = "pending"
    /\ statusReq' = "done"
    /\ IF statusDead
       THEN UNCHANGED statusLoading
       ELSE statusLoading' = FALSE
    /\ UNCHANGED <<statuses, statusError, statusDead, statusGets, statusData,
                   statusLevels>>
    /\ UNCHANGED exceptStatus

\* the GET resolves with a response without data: toStatuses throws a
\* TypeError, which the catch block reports
StatusResolveNoData ==
    /\ statusReq = "pending"
    /\ statusReq' = "done"
    /\ IF statusDead
       THEN UNCHANGED <<statusError, statusLoading>>
       ELSE /\ statusError' = <<"TypeError: Cannot read properties of undefined">>
            /\ statusLoading' = FALSE
    /\ UNCHANGED <<statuses, statusDead, statusGets, statusData, statusLevels>>
    /\ UNCHANGED exceptStatus

\* The catch block without its check of dead.
StatusRejectUnguarded(msg) ==
    /\ statusReq = "pending"
    /\ statusReq' = "done"
    /\ statusError' = OrElse(msg, <<"Failed to fetch status">>)
    /\ statusLoading' = FALSE
    /\ UNCHANGED <<statuses, statusDead, statusGets, statusData, statusLevels>>
    /\ UNCHANGED exceptStatus

\* the GET rejects with an error whose message is msg
StatusReject(msg) ==
    /\ statusReq = "pending"
    /\ statusReq' = "done"
    /\ IF statusDead
       THEN UNCHANGED <<statusError, statusLoading>>
       ELSE /\ statusError' = OrElse(msg, <<"Failed to fetch status">>)
            /\ statusLoading' = FALSE
    /\ UNCHANGED <<statuses, statusDead, statusGets, statusData, statusLevels>>
    /\ UNCHANGED exceptStatus

\* the effect's cleanup
StatusTeardown ==
    /\ ~statusDead
    /\ statusDead' = TRUE
    /\ UNCHANGED <<statuses, statusError, statusLoading, statusReq, statusGets,
                   statusData, statusLevels>>
    /\ UNCHANGED exceptStatus

\* --------------------------------------------------- status panel inputs

ToUpper(c) ==
    IF \E i \in 1..26 : LowerChars[i] = c
    THEN UpperChars[CHOOSE i \in 1..26 : LowerChars[i] = c]
    ELSE c

UpperCase(s) == [i \in 1..Len(s) |-> ToUpper(s[i])]

Capitalize(s) == [i \in 1..Len(s) |-> IF i = 1 THEN ToUpper(s[i]) ELSE s[i]]

\* the letter cases a status text comes in
Cases(s) == {s, Capitalize(s), UpperCase(s)}

ServerInputs ==
    {Undef, <<>>} \cup
    UNION { Cases(pre \o core) :
              pre \in { <<>>, <<"s", "e", "r", "v", "e", "r", " ">>, <<"n", "o", "t", " ">> },
              core \in { StartedText, <<"s", "t", "a", "r", "t">>,
                         <<"s", "t", "o", "p", "p", "e", "d">> } }

DbInputs ==
    {Undef, <<>>} \cup
    UNION { Cases(pre \o core) :
              pre \in { <<>>, <<"d", "i", "s">>, <<"n", "o", "t", " ">> },
              core \in { ConnectedText, <<"c", "o", "n", "n", "e", "c", "t">>,
                         <<"d", "o", "w", "n">> } }

HookInputs ==
    { [present |-> FALSE, success |-> "undefined", message |-> Undef, webhookUrl |-> Undef] }
    \cup
    { [present |-> TRUE, success |-> s, message |-> m, webhookUrl |-> Undef] :
        s \in {"true", "false", "undefined"}, m \in {Undef, <<"Webhook active">>} }

JunkText == <<"a", "b", "c">>

\* CPU loads: every "i.ff" up to the bound, and the odd ones
CpuInputs ==
    { Fixed(h, 2) : h \in 0..MaxCpuHundredths }
    \cup { Undef, <<>>, JunkText, <<"0", ".", "7">>, <<"1", ".", "5">>,
           <<"-", "1", ".", "0", "0">>, <<"1", ".", "5", "x">>,
           <<"0", ".", "5", "x">>, <<" ">>, InfinityText }

MemoryOf(pct) ==
    [present |-> TRUE, usagePercent |-> pct,
     usedGB |-> <<"9", ".", "4", "5">>, totalGB |-> <<"1", "1", ".", "9", "7">>]

NoMemory ==
    [present |-> FALSE, usagePercent |-> Undef, usedGB |-> Undef, totalGB |-> Undef]

\* memory usage: every "i.f" percent up to the bound, and the odd ones
MemoryInputs ==
    { MemoryOf(Fixed(m, 1)) : m \in 0..MaxMemTenths }
    \cup { MemoryOf(Undef), MemoryOf(<<>>), MemoryOf(JunkText),
           MemoryOf(<<"8", "0">>), MemoryOf(<<"9", "5">>), NoMemory,
           MemoryOf(<<"5", "0", "%">>), MemoryOf(<<"%">>) }

Snapshot(server, db, cpu, mem, hook) ==
    [server |-> server, dbStatus |-> db, cpuLoad |-> cpu, memory |-> mem,
     paymentWebhookStatus |-> hook]

HealthyHook ==
    [present |-> TRUE, success |-> "true", message |-> Undef, webhookUrl |-> Undef]

\* The snapshots a response carries: every CPU load, every memory usage and
\* every combination of the server, database and webhook fields, the other
\* fields being those of a healthy system or of a loaded one.
Snapshots ==
    { Snapshot(Capitalize(ServerStartedText), Capitalize(ConnectedText), c,
               MemoryOf(<<"7", "8", ".", "9">>), HealthyHook) : c \in CpuInputs }
    \cup
    { Snapshot(Capitalize(ServerStartedText), Capitalize(ConnectedText),
               <<"0", ".", "0", "0">>, m, HealthyHook) : m \in MemoryInputs }
    \cup
    { Snapshot(sv, db, c, MemoryOf(m), h) :
        sv \in ServerInputs, db \in DbInputs, h \in HookInputs,
        c \in { <<"1", ".", "0", "0">> },
        m \in { <<"9", "6", ".", "0">> } }

ErrorMessages == { Undef, <<>>, <<"Network error">> }

NextStatus ==
    \/ StatusMount
    \/ \E api \in Snapshots : StatusResolve(api)
    \/ StatusResolveNoData
    \/ \E msg \in ErrorMessages : StatusReject(msg)
    \/ StatusTeardown

\* ------------------------------------------------------------ form inputs

\* what a user types into a title or description field
FieldTexts ==
    { <<>>, <<" ">>, <<"a">>, <<" ", "a", " ">>, <<"a", " ", "b">> }

\* what the value field holds
ValueTexts ==
    { <<>>, <<" ">>, <<"0">>, <<"5">>, <<"-", "5">>, <<"-", "0">>, <<"5", ".", "5">>,
      <<".", "5">>, <<"5", ".">>, <<" ", "5", " ">>, <<"-">>, <<".">>, <<"a">>,
      <<"5", "a">>, <<"5", " ", "5">>, InfinityText, <<"-">> \o InfinityText }

\* ------------------------------------------------------------ create form

\* The validation without its check of the value.
CreateValidationErrorNoValueCheck(form) ==
    IF Trim(form.title) = <<>> THEN <<"TITLE_IS_REQUIRED">>
    ELSE IF Trim(form.description) = <<>> THEN <<"DESCRIPTION_IS_REQUIRED">>
    ELSE Undef

\* onSubmit, // Validation: the error it sets, Undef when the form is valid
CreateValidationError(form) ==
    LET title       == Trim(form.title)
        description == Trim(form.description)
        valueNum    == Number(form.value)
    IN  IF title = <<>> THEN <<"TITLE_IS_REQUIRED">>
        ELSE IF description = <<>> THEN <<"DESCRIPTION_IS_REQUIRED">>
        ELSE IF ~IsFinite(valueNum) \/ Lt(valueNum, Num(0, 0))
             THEN <<"VALUE_MUST_BE_NON_NEGATIVE_NUMBER">>
        ELSE Undef

\* the body of POST /api/addons/create
CreateBody(form) ==
    [title       |-> Trim(form.title),
     description |-> Trim(form.description),
     value       |-> Number(form.value)]

InitCreate ==
    /\ cForm = [title |-> <<>>, description |-> <<>>, value |-> <<>>]
    /\ cError = Undef
    /\ cSuccess = Undef
    /\ cSubmitting = FALSE
    /\ cPending = FALSE
    /\ cReq = <<>>
    /\ cPosts = 0
    /\ cTimers = 0
    /\ cRedirects = 0
    /\ cMounted = TRUE

\* onChange(key, value); the inputs are disabled while submitting
CreateOnChange(key, text) ==
    /\ cMounted
    /\ ~cSubmitting
    /\ cError' = Undef
    /\ cForm' = [cForm EXCEPT ![key] = text]
    /\ UNCHANGED <<cSuccess, cSubmitting, cPending, cReq, cPosts, cTimers,
                   cRedirects, cMounted>>
    /\ UNCHANGED exceptCreate

\* onSubmit up to its await, without its setSuccess(null).
CreateSubmitKeepingSuccess ==
    /\ cMounted
    /\ ~(cSubmitting \/ cPending)
    /\ IF CreateValidationError(cForm) # Undef
       THEN /\ cError' = CreateValidationError(cForm)
            /\ UNCHANGED <<cSubmitting, cReq, cPosts>>
       ELSE /\ cPosts < MaxSubmits
            /\ cError' = Undef
            /\ cSubmitting' = TRUE
            /\ cReq' = <<CreateBody(cForm)>>
            /\ cPosts' = cPosts + 1
    /\ UNCHANGED <<cForm, cSuccess, cPending, cTimers, cRedirects, cMounted>>
    /\ UNCHANGED exceptCreate

\* onSubmit up to its await; the submit button is disabled while
\* submitting || pending
CreateSubmit ==
    /\ cMounted
    /\ ~(cSubmitting \/ cPending)
    /\ cSuccess' = Undef
    /\ IF CreateValidationError(cForm) # Undef
       THEN /\ cError' = CreateValidationError(cForm)
            /\ UNCHANGED <<cSubmitting, cReq, cPosts>>
       ELSE /\ cPosts < MaxSubmits
            /\ cError' = Undef
            /\ cSubmitting' = TRUE
            /\ cReq' = <<CreateBody(cForm)>>
            /\ cPosts' = cPosts + 1
    /\ UNCHANGED <<cForm, cPending, cTimers, cRedirects, cMounted>>
    /\ UNCHANGED exceptCreate

\* the POST resolves: success message, redirect timer, finally
CreateResolve ==
    /\ cReq # <<>>
    /\ cReq' = <<>>
    /\ cSuccess' = <<"ADDON_CREATED_SUCCESSFULLY">>
    /\ cTimers' = cTimers + 1
    /\ cSubmitting' = FALSE
    /\ UNCHANGED <<cForm, cError, cPending, cPosts, cRedirects, cMounted>>
    /\ UNCHANGED exceptCreate

\* A catch block that schedules the redirect as the try block does.
CreateRejectRedirecting(msg) ==
    /\ cReq # <<>>
    /\ cReq' = <<>>
    /\ cError' = OrElse(msg, <<"FAILED_TO_CREATE_ADDON">>)
    /\ cTimers' = cTimers + 1
    /\ cSubmitting' = FALSE
    /\ UNCHANGED <<cForm, cSuccess, cPending, cPosts, cRedirects, cMounted>>
    /\ UNCHANGED exceptCreate

\* the POST rejects with an error whose message is msg: catch, finally
CreateReject(msg) ==
    /\ cReq # <<>>
    /\ cReq' = <<>>
    /\ cError' = OrElse(msg, <<"FAILED_TO_CREATE_ADDON">>)
    /\ cSubmitting' = FALSE
    /\ UNCHANGED <<cForm, cSuccess, cPending, cPosts, cTimers, cRedirects, cMounted>>
    /\ UNCHANGED exceptCreate

\* the 1500 ms timer fires: startTransition(() => router.replace("/addons"))
CreateTimerFires ==
    /\ cTimers > 0
    /\ cTimers' = cTimers - 1
    /\ cPending' = TRUE
    /\ cRedirects' = cRedirects + 1
    /\ UNCHANGED <<cForm, cError, cSuccess, cSubmitting, cReq, cPosts, cMounted>>
    /\ UNCHANGED exceptCreate

\* the form leaves the screen: CANCEL (router.back(), disabled while
\* submitting), the BACK_TO_ADDONS link, or the redirect's navigation
CreateLeave ==
    /\ cMounted
    /\ cMounted' = FALSE
    /\ UNCHANGED <<cForm, cError, cSuccess, cSubmitting, cPending, cReq, cPosts,
                   cTimers, cRedirects>>
    /\ UNCHANGED exceptCreate

NextCreate ==
    \/ \E text \in FieldTexts : CreateOnChange("title", text)
    \/ \E text \in FieldTexts : CreateOnChange("description", text)
    \/ \E text \in ValueTexts : CreateOnChange("value", text)
    \/ CreateSubmit
    \/ CreateResolve
    \/ \E msg \in ErrorMessages : CreateReject(msg)
    \/ CreateTimerFires
    \/ CreateLeave

\* -------------------------------------------------------------- edit form

StatusOptions == {"ACTIVE", "INACTIVE", "PENDING", "DRAFT"}

\* The validation without its check of the id.
EditValidationErrorNoIdCheck(id, value) ==
    IF ~IsFinite(Number(value)) \/ Lt(Number(value), Num(0, 0))
    THEN <<"VALUE_MUST_BE_NON_NEGATIVE_NUMBER">>
    ELSE Undef

\* submit: the error its checks set, Undef when they pass
EditValidationError(id, value) ==
    LET valueNum == Number(value)
    IN  IF id = <<>> THEN <<"INVALID_ADDON_ID">>
        ELSE IF ~IsFinite(valueNum) \/ Lt(valueNum, Num(0, 0))
             THEN <<"VALUE_MUST_BE_NON_NEGATIVE_NUMBER">>
        ELSE Undef

\* the body of PATCH /api/addons/edit
EditBody(id, fields) ==
    [addOnId     |-> id,
     title       |-> fields.title,
     description |-> fields.description,
     value       |-> Number(fields.value),
     status      |-> fields.status]

\* The search params the edit page is opened with: an addon's id and
\* fields, or nothing at all.
EditParams ==
    { [id |-> id, title |-> <<"a">>, description |-> <<"a">>, value |-> <<"5">>,
       status |-> "INACTIVE"] : id \in { <<>>, <<"a", "1">> } }
    \cup
    { [id |-> id, title |-> <<>>, description |-> <<>>, value |-> <<>>,
       status |-> "ACTIVE"] : id \in { <<>>, <<"a", "1">> } }

InitialFields(params) ==
    [title |-> params.title, description |-> params.description,
     value |-> params.value, status |-> params.status]

\* hasChanges without its comparison of the status.
HasChangesIgnoringStatus ==
    \/ eFields.title # eParams.title
    \/ eFields.description # eParams.description
    \/ eFields.value # eParams.value

\* const hasChanges = ...
HasChanges ==
    \/ eFields.title # eParams.title
    \/ eFields.description # eParams.description
    \/ eFields.value # eParams.value
    \/ eFields.status # eParams.status

\* the submit button's disabled={saving || !hasChanges}
EditSubmitDisabled == eSaving \/ ~HasChanges

\* the Success State block: {saving && !error && ...}
EditSuccessShown == eSaving /\ eError = Undef

InitEdit ==
    /\ eParams \in EditParams
    /\ eFields = InitialFields(eParams)
    /\ eError = Undef
    /\ eSaving = FALSE
    /\ eReq = <<>>
    /\ ePatches = 0
    /\ eTimers = 0
    /\ eRedirects = 0
    /\ eMounted = TRUE

\* setTitle / setDescription / setValue / setStatus; the inputs are
\* disabled while saving
EditOnChange(key, text) ==
    /\ eMounted
    /\ ~eSaving
    /\ eFields' = [eFields EXCEPT ![key] = text]
    /\ UNCHANGED <<eParams, eError, eSaving, eReq, ePatches, eTimers, eRedirects,
                   eMounted>>
    /\ UNCHANGED exceptEdit

\* submit up to its await; the submit button is disabled while
\* saving || !hasChanges
EditSubmit ==
    /\ eMounted
    /\ ~EditSubmitDisabled
    /\ IF EditValidationError(eParams.id, eFields.value) # Undef
       THEN /\ eError' = EditValidationError(eParams.id, eFields.value)
            /\ UNCHANGED <<eSaving, eReq, ePatches>>
       ELSE /\ ePatches < MaxSubmits
            /\ eError' = Undef
            /\ eSaving' = TRUE
            /\ eReq' = <<EditBody(eParams.id, eFields)>>
            /\ ePatches' = ePatches + 1
    /\ UNCHANGED <<eParams, eFields, eTimers, eRedirects, eMounted>>
    /\ UNCHANGED exceptEdit

\* the PATCH resolves: redirect timer, finally
EditResolve ==
    /\ eReq # <<>>
    /\ eReq' = <<>>
    /\ eTimers' = eTimers + 1
    /\ eSaving' = FALSE
    /\ UNCHANGED <<eParams, eFields, eError, ePatches, eRedirects, eMounted>>
    /\ UNCHANGED exceptEdit

\* A catch block that sends the PATCH again.
EditRejectRetrying(msg) ==
    /\ eReq # <<>>
    /\ ePatches < MaxSubmits
    /\ eError' = OrElse(msg, <<"UPDATE_FAILED">>)
    /\ ePatches' = ePatches + 1
    /\ UNCHANGED <<eParams, eFields, eSaving, eReq, eTimers, eRedirects, eMounted>>
    /\ UNCHANGED exceptEdit

\* the PATCH rejects with an error whose message is msg: catch, finally
EditReject(msg) ==
    /\ eReq # <<>>
    /\ eReq' = <<>>
    /\ eError' = OrElse(msg, <<"UPDATE_FAILED">>)
    /\ eSaving' = FALSE
    /\ UNCHANGED <<eParams, eFields, ePatches, eTimers, eRedirects, eMounted>>
    /\ UNCHANGED exceptEdit

\* the 1000 ms timer fires: router.replace("/addons")
EditTimerFires ==
    /\ eTimers > 0
    /\ eTimers' = eTimers - 1
    /\ eRedirects' = eRedirects + 1
    /\ UNCHANGED <<eParams, eFields, eError, eSaving, eReq, ePatches, eMounted>>
    /\ UNCHANGED exceptEdit

\* the form leaves the screen: CANCEL (router.back(), disabled while
\* saving), the BACK_TO_ADDONS link, or the redirect's navigation
EditLeave ==
    /\ eMounted
    /\ eMounted' = FALSE
    /\ UNCHANGED <<eParams, eFields, eError, eSaving, eReq, ePatches, eTimers,
                   eRedirects>>
    /\ UNCHANGED exceptEdit

NextEdit ==
    \/ \E text \in FieldTexts : EditOnChange("title", text)
    \/ \E text \in FieldTexts : EditOnChange("description", text)
    \/ \E text \in ValueTexts : EditOnChange("value", text)
    \/ \E option \in StatusOptions : EditOnChange("status", option)
    \/ EditSubmit
    \/ EditResolve
    \/ \E msg \in ErrorMessages : EditReject(msg)
    \/ EditTimerFires
    \/ EditLeave

\* ------------------------------------------------------------ addons list

\* the options of the limit select
LimitOptions == {12, 24, 36, 48}

\* the search params the addons page is opened with
PageParams == { Undef, <<>>, <<"0">>, <<"2">>, <<"3">>, <<"a">>, <<"-", "1">> }

LimitParams == { Undef, <<"2", "4">>, <<"0">>, <<"a">> }

\* const n = Number(sp.get(name) ?? dflt); Number.isFinite(n) && n > 0 ? n : dflt
\* (the texts enumerated parse to whole numbers)
ParamOr(text, dflt) ==
    LET n == IF text = Undef THEN Num(dflt, 0) ELSE Number(text)
    IN  IF IsFinite(n) /\ Lt(Num(0, 0), n) THEN n.n \div Pow10(n.d) ELSE dflt

\* useState<Addon[]>([]) / useState<Pagination | null>(null)
NoAddons == [page |-> 0, limit |-> 0, n |-> 0]

NoPagination == [currentPage |-> 0, totalPages |-> 0, limit |-> 0]

\* What the backend answers to a request: totalPages and the number of
\* addons on the page; the page and the limit are those of the request.
ListAnswers == { [totalPages |-> t, n |-> n] : t \in 1..MaxListTotal, n \in {0, 2} }

\* the Pagination is on screen: the grid is shown and there are several pages
PaginationShown ==
    /\ ~lLoading
    /\ lErr = Undef
    /\ lAddons.n > 0
    /\ lPagination # NoPagination
    /\ lPagination.totalPages > 1

\* the pages the buttons of the Pagination lead to
PageTargets ==
    LET c     == lPagination.currentPage
        t     == lPagination.totalPages
        pages == ListPages(c, t)
    IN  (IF c # 1 THEN {Max(1, c - 1)} ELSE {})
        \cup (IF c # t THEN {Min(t, c + 1)} ELSE {})
        \cup (IF pages # <<>> /\ pages[1] > 1 THEN {1} ELSE {})
        \cup (IF pages # <<>> /\ pages[Len(pages)] < t THEN {t} ELSE {})
        \cup { pages[i] : i \in 1..Len(pages) }

InitList ==
    /\ lPage = 1
    /\ lLimit = 12
    /\ lAddons = NoAddons
    /\ lPagination = NoPagination
    /\ lLoading = TRUE
    /\ lErr = Undef
    /\ lReqs = {}
    /\ lIssued = 0
    /\ lMounted = FALSE

\* fetchData up to its await, for the page and limit given
FetchData(page, limit) ==
    /\ lIssued < MaxFetches
    /\ lLoading' = TRUE
    /\ lErr' = Undef
    /\ lReqs' = lReqs \cup { [id |-> lIssued + 1, page |-> page, limit |-> limit] }
    /\ lIssued' = lIssued + 1

\* the page is opened with its search params: first render and the effect
ListOpen(pageText, limitText) ==
    /\ ~lMounted
    /\ lIssued = 0
    /\ lMounted' = TRUE
    /\ lPage' = ParamOr(pageText, 1)
    /\ lLimit' = ParamOr(limitText, 12)
    /\ FetchData(ParamOr(pageText, 1), ParamOr(limitText, 12))
    /\ UNCHANGED <<lAddons, lPagination>>
    /\ UNCHANGED exceptList

\* goToPage(p) from a button of the Pagination: the search params change,
\* fetchData is rebuilt and the effect runs it
ListGoToPage(p) ==
    /\ lMounted
    /\ PaginationShown
    /\ p \in PageTargets
    /\ p # lPage
    /\ lPage' = p
    /\ FetchData(p, lLimit)
    /\ UNCHANGED <<lLimit, lAddons, lPagination, lMounted>>
    /\ UNCHANGED exceptList

\* onChangeLimit(newLimit) from the select (never disabled): limit is set,
\* page becomes 1, the effect runs fetchData
ListChangeLimit(newLimit) ==
    /\ lMounted
    /\ newLimit # lLimit
    /\ lLimit' = newLimit
    /\ lPage' = 1
    /\ FetchData(1, newLimit)
    /\ UNCHANGED <<lAddons, lPagination, lMounted>>
    /\ UNCHANGED exceptList

\* REFRESH, disabled while loading
ListRefresh ==
    /\ lMounted
    /\ ~lLoading
    /\ FetchData(lPage, lLimit)
    /\ UNCHANGED <<lPage, lLimit, lAddons, lPagination, lMounted>>
    /\ UNCHANGED exceptList

\* RETRY_CONNECTION, shown when err && !loading
ListRetry ==
    /\ lMounted
    /\ lErr # Undef
    /\ ~lLoading
    /\ FetchData(lPage, lLimit)
    /\ UNCHANGED <<lPage, lLimit, lAddons, lPagination, lMounted>>
    /\ UNCHANGED exceptList

\* request r resolves: setAddons, setPagination, finally setLoading(false)
ListResolve(r, answer) ==
    /\ r \in lReqs
    /\ lReqs' = lReqs \ {r}
    /\ lAddons' = [page |-> r.page, limit |-> r.limit, n |-> answer.n]
    /\ lPagination' = [currentPage |-> r.page, totalPages |-> answer.totalPages,
                       limit |-> r.limit]
    /\ lLoading' = FALSE
    /\ UNCHANGED <<lPage, lLimit, lErr, lIssued, lMounted>>
    /\ UNCHANGED exceptList

\* request r resolves with a response without data: res.data.addons throws
\* a TypeError, which the catch block reports
ListResolveNoData(r) ==
    /\ r \in lReqs
    /\ lReqs' = lReqs \ {r}
    /\ lErr' = <<"TypeError: Cannot read properties of undefined">>
    /\ lLoading' = FALSE
    /\ UNCHANGED <<lPage, lLimit, lAddons, lPagination, lIssued, lMounted>>
    /\ UNCHANGED exceptList

\* A reject that also empties the grid.
ListRejectClearing(r, msg) ==
    /\ r \in lReqs
    /\ lReqs' = lReqs \ {r}
    /\ lErr' = OrElse(msg, <<"Failed to load add-ons">>)
    /\ lAddons' = NoAddons
    /\ lLoading' = FALSE
    /\ UNCHANGED <<lPage, lLimit, lPagination, lIssued, lMounted>>
    /\ UNCHANGED exceptList

\* request r rejects with an error whose message is msg: catch, finally
ListReject(r, msg) ==
    /\ r \in lReqs
    /\ lReqs' = lReqs \ {r}
    /\ lErr' = OrElse(msg, <<"Failed to load add-ons">>)
    /\ lLoading' = FALSE
    /\ UNCHANGED <<lPage, lLimit, lAddons, lPagination, lIssued, lMounted>>
    /\ UNCHANGED exceptList

\* the view leaves the screen (a link to another page)
ListTeardown ==
    /\ lMounted
    /\ lMounted' = FALSE
    /\ UNCHANGED <<lPage, lLimit, lAddons, lPagination, lLoading, lErr, lReqs,
                   lIssued>>
    /\ UNCHANGED exceptList

NextList ==
    \/ \E pageText \in PageParams, limitText \in LimitParams :
           ListOpen(pageText, limitText)
    \/ \E p \in 1..MaxListTotal : ListGoToPage(p)
    \/ \E newLimit \in LimitOptions : ListChangeLimit(newLimit)
    \/ ListRefresh
    \/ ListRetry
    \/ \E r \in lReqs, answer \in ListAnswers : ListResolve(r, answer)
    \/ \E r \in lReqs : ListResolveNoData(r)
    \/ \E r \in lReqs, msg \in ErrorMessages : ListReject(r, msg)
    \/ ListTeardown

\* --------------------------------------------------------- Workspace page

\* the page and limit search params the Workspace page is requested with
WsPageParams ==
    { Undef, <<"2">>, <<"3">>, <<"2", ".", "5">>, <<"0">>, <<"a">> }

WsLimitParams ==
    { Undef, <<"2", "4">>, <<"1", "0", "0">>, <<"1", "0", "1">>, <<"0">> }

\* const safePage = Number.isFinite(pageNum) && pageNum > 0 ? pageNum : 1
SafePage(text) ==
    LET pageNum == IF text = Undef THEN Num(1, 0) ELSE Number(text)
    IN  IF IsFinite(pageNum) /\ Lt(Num(0, 0), pageNum) THEN pageNum ELSE Num(1, 0)

\* const safeLimit = ... limitNum > 0 && limitNum <= 100 ? limitNum : 10
SafeLimit(text) ==
    LET limitNum == IF text = Undef THEN Num(10, 0) ELSE Number(text)
    IN  IF /\ IsFinite(limitNum)
           /\ Lt(Num(0, 0), limitNum)
           /\ ~Lt(Num(100, 0), limitNum)
        THEN limitNum
        ELSE Num(10, 0)

NoJson == [parses |-> FALSE, status |-> "", data |-> <<>>]

\* the bodies a 2xx response carries: not JSON at all, or a JSON object with
\* a status and, possibly, data (its pagination)
WsJsons ==
    { NoJson }
    \cup
    { [parses |-> TRUE, status |-> st, data |-> d] :
        st \in { "SUCCESS", "ERROR" },
        d \in { <<>>, <<[currentPage |-> 1, totalPages |-> 1]>>,
                <<[currentPage |-> 2, totalPages |-> 3]>> } }

\* the responses fetch resolves with
WsResponses ==
    { [ok |-> FALSE, status |-> st, text |-> t, json |-> NoJson] :
        st \in { 404, 500 }, t \in { <<>>, <<"Bad Gateway">> } }
    \cup
    { [ok |-> TRUE, status |-> 200, text |-> <<>>, json |-> j] : j \in WsJsons }

\* message of the DOMException a fetch rejects with when its signal aborts
AbortMessage == <<"This operation was aborted">>

\* `Network error: ${e?.message || "unknown"}`
NetworkError(msg) == <<"Network error: ">> \o OrElse(msg, <<"unknown">>)

\* the error fetchProperties throws for a response, Undef when it returns
\* json.data
ResponseError(resp) ==
    IF ~resp.ok
    THEN <<"API ">> \o NumToString(Num(resp.status, 0)) \o <<": ">>
             \o OrElse(resp.text, <<"failed to load properties">>)
    ELSE IF ~resp.json.parses THEN <<"SyntaxError: Unexpected token">>
    ELSE IF resp.json.status # "SUCCESS" \/ resp.json.data = <<>>
         THEN <<"Unexpected API shape.">>
    ELSE Undef

InitWorkspace ==
    /\ wPc = "idle"
    /\ wArgs = [page |-> Num(1, 0), limit |-> Num(10, 0)]
    /\ wTimer = "none"
    /\ wAborted = FALSE
    /\ wResponded = FALSE
    /\ wError = Undef
    /\ wData = <<>>

\* WorkspacePage up to the await of fetch: the params are parsed, the
\* timeout timer is armed, the POST is sent
WsOpen(pageText, limitText) ==
    /\ wPc = "idle"
    /\ wPc' = "fetching"
    /\ wArgs' = [page |-> SafePage(pageText), limit |-> SafeLimit(limitText)]
    /\ wTimer' = "armed"
    /\ UNCHANGED <<wAborted, wResponded, wError, wData>>
    /\ UNCHANGED exceptWorkspace

\* The continuation of fetchProperties without its clearTimeout.
WsRespondNoClear(resp) ==
    /\ wPc = "fetching"
    /\ wResponded' = TRUE
    /\ IF ResponseError(resp) # Undef
       THEN /\ wPc' = "threw"
            /\ wError' = ResponseError(resp)
            /\ UNCHANGED wData
       ELSE /\ wPc' = "rendered"
            /\ wData' = resp.json.data
            /\ UNCHANGED wError
    /\ UNCHANGED <<wArgs, wTimer, wAborted>>
    /\ UNCHANGED exceptWorkspace

\* fetch resolves with resp: clearTimeout, then the checks of the response;
\* an error thrown leaves WorkspacePage, which has no try block
WsRespond(resp) ==
    /\ wPc = "fetching"
    /\ wResponded' = TRUE
    /\ wTimer' = "cleared"
    /\ IF ResponseError(resp) # Undef
       THEN /\ wPc' = "threw"
            /\ wError' = ResponseError(resp)
            /\ UNCHANGED wData
       ELSE /\ wPc' = "rendered"
            /\ wData' = resp.json.data
            /\ UNCHANGED wError
    /\ UNCHANGED <<wArgs, wAborted>>
    /\ UNCHANGED exceptWorkspace

\* fetch rejects with an error whose message is msg (no connection): the
\* catch callback throws before clearTimeout is reached
WsFetchRejects(msg) ==
    /\ wPc = "fetching"
    /\ wPc' = "threw"
    /\ wError' = NetworkError(msg)
    /\ UNCHANGED <<wArgs, wTimer, wAborted, wResponded, wData>>
    /\ UNCHANGED exceptWorkspace

\* the 15 s timer fires: controller.abort(); a fetch still outstanding
\* rejects with the abort error, which the catch callback rethrows
WsTimerFires ==
    /\ wTimer = "armed"
    /\ wTimer' = "fired"
    /\ wAborted' = TRUE
    /\ IF wPc = "fetching"
       THEN /\ wPc' = "threw"
            /\ wError' = NetworkError(AbortMessage)
       ELSE UNCHANGED <<wPc, wError>>
    /\ UNCHANGED <<wArgs, wResponded, wData>>
    /\ UNCHANGED exceptWorkspace

NextWorkspace ==
    \/ \E pageText \in WsPageParams, limitText \in WsLimitParams :
           WsOpen(pageText, limitText)
    \/ \E resp \in WsResponses : WsRespond(resp)
    \/ \E msg \in ErrorMessages : WsFetchRejects(msg)
    \/ WsTimerFires

\* -------------------------------------------------------- specifications

Init ==
    InitWindow /\ InitStatus /\ InitCreate /\ InitEdit /\ InitList /\ InitWorkspace

\* Init, the edit form being the one opened on an addon with an id and fields
InitOnAddon == Init /\ eParams.id # <<>> /\ eParams.title # <<>>

Next ==
    NextWindow \/ NextStatus \/ NextCreate \/ NextEdit \/ NextList \/ NextWorkspace

\* everything at once
Spec == Init /\ [][Next]_vars

\* the two Pagination components
SpecWindow == InitOnAddon /\ [][NextWindow]_vars

\* the status panel
SpecStatus == InitOnAddon /\ [][NextStatus]_vars

\* the create form
SpecCreate == InitOnAddon /\ [][NextCreate]_vars

\* the edit form
SpecEdit == Init /\ [][NextEdit]_vars

\* the addons list
SpecList == InitOnAddon /\ [][NextList]_vars

\* the Workspace page
SpecWorkspace == InitOnAddon /\ [][NextWorkspace]_vars

\* What a user types on the way to a submit: a blank and a filled text; a
\* blank, an accepted and a refused value.
FlowTexts == { <<>>, <<"a">> }

FlowValues == { <<>>, <<"5">>, <<"-", "5">> }

\* the create form with these inputs
CreateFlow ==
    \/ \E text \in FlowTexts : CreateOnChange("title", text)
    \/ \E text \in FlowTexts : CreateOnChange("description", text)
    \/ \E text \in FlowValues : CreateOnChange("value", text)
    \/ CreateSubmit
    \/ CreateResolve
    \/ \E msg \in ErrorMessages : CreateReject(msg)
    \/ CreateTimerFires
    \/ CreateLeave

\* the edit form with these inputs
EditFlow ==
    \/ \E text \in FlowTexts : EditOnChange("title", text)
    \/ \E text \in FlowTexts : EditOnChange("description", text)
    \/ \E text \in FlowValues : EditOnChange("value", text)
    \/ \E option \in StatusOptions : EditOnChange("status", option)
    \/ EditSubmit
    \/ EditResolve
    \/ \E msg \in ErrorMessages : EditReject(msg)
    \/ EditTimerFires
    \/ EditLeave

\* The create and the edit form are pages of their own: a session shows one
\* of them, the other staying as constructed.
NextForms ==
    \/ InitEdit /\ CreateFlow
    \/ InitCreate /\ EditFlow

\* The status panel, the two forms and the addons list are on pages of
\* their own: a session shows one of them, the others staying as constructed.
NextScreens ==
    \/ InitCreate /\ InitEdit /\ InitList /\ NextStatus
    \/ InitStatus /\ InitEdit /\ InitList /\ NextCreate
    \/ InitStatus /\ InitCreate /\ InitList /\ NextEdit
    \/ InitStatus /\ InitCreate /\ InitEdit /\ NextList

\* the four components that send requests from the browser
SpecScreens == InitOnAddon /\ [][NextScreens]_vars

\* Init, the edit form being opened on an addon with fields, with or
\* without an id
InitForms == Init /\ eParams.title # <<>>

\* the two forms; a browser runs the callback of every timer that is due
SpecForms ==
    /\ InitForms
    /\ [][NextForms]_vars
    /\ WF_vars(CreateTimerFires)
    /\ WF_vars(EditTimerFires)

\* ------------------------------------------------------------ properties

Range(s) == { s[i] : i \in 1..Len(s) }

\* s is the ascending run lo, lo+1, ..., hi
IsRun(s, lo, hi) ==
    /\ Len(s) = hi - lo + 1
    /\ \A i \in 1..Len(s) : s[i] = lo + i - 1

\* C1: for currentPage in [1, totalPages] the addons-list window is a
\* contiguous ascending run inside [1, totalPages], contains currentPage and
\* has exactly min(5, totalPages) entries; for totalPages <= 5 it is
\* [1..totalPages].
C1_ListWindowShape ==
    listProps # NoProps =>
        LET c == listProps.currentPage
            t == listProps.totalPages
        IN  /\ Len(listPages) = Min(5, t)
            /\ \A i \in 1..Len(listPages) : listPages[i] \in 1..t
            /\ \A i \in 1..(Len(listPages) - 1) : listPages[i + 1] = listPages[i] + 1
            /\ c \in Range(listPages)
            /\ t <= 5 => IsRun(listPages, 1, t)

\* C1 witness: the last page of a list longer than the window has been rendered.
C1_Witness ==
    /\ listProps # NoProps
    /\ listProps.totalPages > 5
    /\ listProps.currentPage = listProps.totalPages
    /\ Len(listPages) = 5

\* C2: for totalPages >= 5 and currentPage in [3, totalPages-2] the
\* addons-list window is exactly [currentPage-2 .. currentPage+2].
C2_ListWindowCentred ==
    ( /\ listProps # NoProps
      /\ listProps.totalPages >= 5
      /\ listProps.currentPage >= 3
      /\ listProps.currentPage <= listProps.totalPages - 2 ) =>
        /\ IsRun(listPages, listProps.currentPage - 2, listProps.currentPage + 2)
        /\ listPages[3] = listProps.currentPage

\* C2 witness: an interior page of a long list has been rendered.
C2_Witness ==
    /\ listProps # NoProps
    /\ listProps.totalPages >= 7
    /\ listProps.currentPage = 4
    /\ listPages = <<2, 3, 4, 5, 6>>

\* C3: the Workspace window equals the window of the specified algorithm
\* (half = floor(5/2); start = max(1, cur - half); end = min(total, start+4);
\* start = max(1, min(start, end - 4)); [start..end]) and so has
\* min(5, totalPages) entries.
C3_WorkspaceWindowAsSpecified ==
    wsProps # NoProps =>
        LET c      == wsProps.currentPage
            t      == wsProps.totalPages
            start0 == Max(1, c - 2)
            end    == Min(t, start0 + 4)
            start  == Max(1, Min(start0, end - 4))
        IN  /\ IsRun(wsPages, start, end)
            /\ Len(wsPages) = Min(5, t)

\* The status panel shows the indicators of a snapshot.
StatusShown == statusData # <<>> /\ statuses # <<>> /\ statusLevels # <<>>

HoldsWord(s, w) ==
    \E i \in 1..Len(s) :
        /\ i + Len(w) - 1 <= Len(s)
        /\ [j \in 1..Len(w) |-> ToLower(s[i + j - 1])] = w

\* C6: the server, database and webhook indicators are ok or bad, never warn:
\* database ok exactly when dbStatus holds "connected" in any letter case,
\* server ok exactly when the server text holds "started" in any letter case,
\* webhook ok exactly when paymentWebhookStatus.success is true; a missing
\* field gives bad.
C6_FlagIndicators ==
    StatusShown =>
        LET api == statusData[1]
        IN  /\ statusLevels[1] \in {"ok", "bad"}
            /\ statusLevels[2] \in {"ok", "bad"}
            /\ statusLevels[5] \in {"ok", "bad"}
            /\ statusLevels[1] = "ok" <=>
                   (api.server # Undef /\ HoldsWord(api.server, StartedText))
            /\ statusLevels[2] = "ok" <=>
                   (api.dbStatus # Undef /\ HoldsWord(api.dbStatus, ConnectedText))
            /\ statusLevels[5] = "ok" <=>
                   ( /\ api.paymentWebhookStatus.present
                     /\ api.paymentWebhookStatus.success = "true" )

\* C6 witness: a snapshot with an upper-case "STARTED" alone, no dbStatus
\* and a failed webhook has been classified.
C6_Witness ==
    /\ StatusShown
    /\ statusData[1].server = UpperCase(StartedText)
    /\ statusData[1].dbStatus = Undef
    /\ statusData[1].paymentWebhookStatus.success = "false"
    /\ statusLevels[1] = "ok"
    /\ statusLevels[2] = "bad"
    /\ statusLevels[5] = "bad"

\* C7: each of the five indicators carries the variant of its severity,
\* ok -> success, warn -> warning, bad -> destructive, and two indicators
\* have the same variant exactly when they have the same severity.
C7_VariantOfSeverity ==
    StatusShown =>
        /\ Len(statuses) = 5
        /\ \A i \in 1..5 :
               statuses[i].variant =
                   CASE statusLevels[i] = "ok" -> "success"
                     [] statusLevels[i] = "warn" -> "warning"
                     [] statusLevels[i] = "bad" -> "destructive"
        /\ \A i, j \in 1..5 :
               (statuses[i].variant = statuses[j].variant)
                   <=> (statusLevels[i] = statusLevels[j])

\* C7 witness: a snapshot with an ok, a warn and a bad indicator is shown.
C7_Witness ==
    /\ StatusShown
    /\ statusLevels[3] = "warn"
    /\ statuses[3].variant = "warning"
    /\ statusLevels[4] = "bad"
    /\ statuses[4].variant = "destructive"
    /\ statusLevels[1] = "ok"
    /\ statuses[1].variant = "success"

\* every character of s is white space (s may be empty)
IsBlank(s) == \A i \in 1..Len(s) : IsSpace(s[i])

\* s is not empty and neither starts nor ends with white space
IsTrimmedText(s) == s # <<>> /\ ~IsSpace(s[1]) /\ ~IsSpace(s[Len(s)])

\* the text does not parse (Number) to a finite number >= 0
NotNonNegativeNumber(text) ==
    \/ Number(text).k # "num"
    \/ Number(text).n < 0

\* C8: in the create form a submit with a blank title, a blank description
\* or a value that does not parse to a finite number >= 0 sets a validation
\* error and sends no POST; every POST sent carries a non-empty trimmed
\* title, a non-empty trimmed description and a finite value >= 0.
C8_CreateValidationBlocks ==
    [][ /\ ( /\ CreateSubmit
             /\ \/ IsBlank(cForm.title)
                \/ IsBlank(cForm.description)
                \/ NotNonNegativeNumber(cForm.value) )
           => /\ cError' \in { <<"TITLE_IS_REQUIRED">>, <<"DESCRIPTION_IS_REQUIRED">>,
                               <<"VALUE_MUST_BE_NON_NEGATIVE_NUMBER">> }
              /\ cPosts' = cPosts
              /\ cReq' = <<>>
        /\ cPosts' # cPosts
           => /\ cReq' # <<>>
              /\ IsTrimmedText(cReq'[1].title)
              /\ IsTrimmedText(cReq'[1].description)
              /\ cReq'[1].value.k = "num"
              /\ cReq'[1].value.n >= 0 ]_vars

\* C8 witness: a submit with a blank title, a fine description and a fine
\* value has set the validation error and sent nothing.
C8_Witness ==
    /\ cForm.title = <<" ">>
    /\ cForm.description = <<"a">>
    /\ cForm.value = <<"5">>
    /\ cError = <<"TITLE_IS_REQUIRED">>
    /\ cPosts = 0
    /\ cReq = <<>>

\* C9: in the edit form a submit with a missing addon id, or with a value
\* that parses to a negative or non-finite number, sets the error
\* INVALID_ADDON_ID or VALUE_MUST_BE_NON_NEGATIVE_NUMBER, sends no PATCH and
\* leaves saving false.
C9_EditValidationBlocks ==
    [][ ( /\ EditSubmit
          /\ \/ eParams.id = <<>>
             \/ NotNonNegativeNumber(eFields.value) )
        => /\ eError' = IF eParams.id = <<>> THEN <<"INVALID_ADDON_ID">>
                        ELSE <<"VALUE_MUST_BE_NON_NEGATIVE_NUMBER">>
           /\ ePatches' = ePatches
           /\ eReq' = <<>>
           /\ eSaving' = FALSE ]_vars

\* C9 witness: a submit of a negative value on an addon with an id has set
\* the value error; nothing was sent and saving is false.
C9_Witness ==
    /\ eParams.id # <<>>
    /\ eFields.value = <<"-", "5">>
    /\ eError = <<"VALUE_MUST_BE_NON_NEGATIVE_NUMBER">>
    /\ ePatches = 0
    /\ eReq = <<>>
    /\ ~eSaving

\* C10: in the edit form no PATCH is sent with an empty title or an empty
\* description.
C10_EditRequiresTitleAndDescription ==
    eReq # <<>> => eReq[1].title # <<>> /\ eReq[1].description # <<>>

\* C14: in the addons list at most one fetch request is outstanding at any
\* time.
C14_OneFetchOutstanding == Cardinality(lReqs) <= 1

\* C16: in the addons list a response that arrives after the view has been
\* torn down writes none of addons, pagination, err and loading.
C16_ListNoUpdateAfterTeardown ==
    [][ (lIssued > 0 /\ ~lMounted)
        => UNCHANGED <<lAddons, lPagination, lErr, lLoading>> ]_vars

\* C18: in the addons list every failed fetch sets err to the failure's
\* message (or "Failed to load add-ons" when it has none), sets loading to
\* false and leaves addons and pagination unchanged.
C18_ListFailureShown ==
    [][ \A r \in lReqs :
          /\ \A msg \in ErrorMessages :
                ListReject(r, msg)
                => /\ lErr' = IF msg = Undef \/ msg = <<>>
                              THEN <<"Failed to load add-ons">>
                              ELSE msg
                   /\ lLoading' = FALSE
                   /\ lAddons' = lAddons
                   /\ lPagination' = lPagination
          /\ ListResolveNoData(r)
                => /\ lErr' # Undef
                   /\ lLoading' = FALSE
                   /\ lAddons' = lAddons
                   /\ lPagination' = lPagination ]_vars

\* C18 witness: a fetch failed after a page of addons had been loaded; the
\* message is shown and the addons are still there.
C18_Witness ==
    /\ lMounted
    /\ lErr = <<"Network error">>
    /\ ~lLoading
    /\ lReqs = {}
    /\ lAddons.n > 0
    /\ lPagination # NoPagination

\* C11: in the edit form the submit control is disabled exactly when a save
\* is in progress or title, description, value and status all equal the
\* values the form was opened with, whatever edits came before.
C11_EditSubmitDisabledIff ==
    EditSubmitDisabled <=> (eSaving \/ eFields = InitialFields(eParams))

\* C11 witness: a submit was refused (so a field had been changed), then
\* every edit was reverted, and the control is disabled with no save running.
C11_Witness ==
    /\ eMounted
    /\ eError = <<"VALUE_MUST_BE_NON_NEGATIVE_NUMBER">>
    /\ ~eSaving
    /\ eFields = InitialFields(eParams)
    /\ EditSubmitDisabled

\* C12: in the create form, between a successful response and the redirect
\* it schedules (the redirect timer is running), no further
\* POST /api/addons/create is sent.
C12_OneCallPerFlow ==
    [][ cTimers > 0 => cPosts' = cPosts ]_vars

\* C15: once the status panel has been torn down, no step changes statuses,
\* error or loading: a response or a failure that arrives afterwards leaves
\* them at the values they had at teardown.
C15_StatusNoUpdateAfterTeardown ==
    [][ statusDead => UNCHANGED <<statuses, statusError, statusLoading>> ]_vars

\* C15 witness: the panel was torn down while the GET was outstanding, the
\* response has arrived since, and the state is still that of the mount.
C15_Witness ==
    /\ statusDead
    /\ statusReq = "done"
    /\ statusLoading
    /\ statuses = <<>>
    /\ statusError = Undef

\* C17: in fetchProperties, when the timeout timer fires before the response
\* has arrived the request is aborted and the call fails with an error whose
\* message begins with "Network error:"; when the response has arrived the
\* timer is cancelled and abort() is never called.
C17_TimeoutOrResponse ==
    /\ [][ (wPc = "fetching" /\ wTimer = "armed" /\ wTimer' = "fired")
             => /\ wAborted'
                /\ wPc' = "threw"
                /\ wError'[1] = "Network error: " ]_vars
    /\ [](wResponded => (wTimer = "cleared" /\ ~wAborted))

\* C17 witness: the timer has fired while the request was outstanding and
\* the call has failed with the network error of the abort.
C17_Witness ==
    /\ wTimer = "fired"
    /\ wAborted
    /\ ~wResponded
    /\ wPc = "threw"
    /\ wError = <<"Network error: ">> \o AbortMessage

\* C19: no failure of the property fetch leaves WorkspacePage as an error
\* thrown: the page's render never ends by throwing.
C19_FailuresCaught == wPc # "threw"

\* C13: in the create and the edit form a redirect is scheduled only by the
\* step that handles a successful response (never by a refused submit or a
\* failed request), router.replace runs only for a scheduled redirect, and
\* every scheduled redirect eventually runs.
C13_RedirectOnSuccessOnly ==
    /\ [][ /\ cTimers' > cTimers
               => /\ cReq # <<>> /\ cReq' = <<>>
                  /\ cError' = Undef
                  /\ cSuccess' = <<"ADDON_CREATED_SUCCESSFULLY">>
           /\ cRedirects' # cRedirects
               => cTimers > 0 /\ cRedirects' = cRedirects + 1
           /\ eTimers' > eTimers
               => /\ eReq # <<>> /\ eReq' = <<>>
                  /\ eError' = Undef
           /\ eRedirects' # eRedirects
               => eTimers > 0 /\ eRedirects' = eRedirects + 1 ]_vars
    /\ \A n \in 0..MaxSubmits :
           /\ (cTimers > 0 /\ cRedirects = n) ~> (cRedirects > n)
           /\ (eTimers > 0 /\ eRedirects = n) ~> (eRedirects > n)

\* C13 witness: in the edit form a PATCH succeeded and its redirect has run;
\* a submit refused or a PATCH failed since has scheduled no other.
C13_Witness ==
    /\ ePatches = 2
    /\ eError # Undef
    /\ eTimers = 0
    /\ eRedirects = 1

\* C20: in the addons list, the status panel, the create form and the edit
\* form a request is issued only by the mount of the view or by an event of
\* the user (page or limit change, REFRESH, RETRY, submit): the handling of
\* a failure, or of any response, issues none.
C20_NoAutomaticRetry ==
    [][ /\ lIssued' # lIssued
           => \/ \E pageText \in PageParams, limitText \in LimitParams :
                     ListOpen(pageText, limitText)
              \/ \E p \in 1..MaxListTotal : ListGoToPage(p)
              \/ \E newLimit \in LimitOptions : ListChangeLimit(newLimit)
              \/ ListRefresh
              \/ ListRetry
        /\ statusGets' # statusGets => StatusMount
        /\ cPosts' # cPosts => CreateSubmit
        /\ ePatches' # ePatches => EditSubmit ]_vars

\* C20 witness: a PATCH of the edit form has failed, the failure is shown,
\* and no other PATCH has been sent.
C20_Witness ==
    /\ eError = <<"UPDATE_FAILED">>
    /\ ~eSaving
    /\ eReq = <<>>
    /\ ePatches = 1
    /\ eTimers = 0 /\ eRedirects = 0

\* C21: a status panel that has mounted has issued exactly one GET /status,
\* whatever became of it; once the request is over, either the panel had
\* been torn down first and still shows its initial state, or loading is
\* false and exactly one of statuses and error is set.
C21_StatusFetchedOnce ==
    /\ statusGets <= 1
    /\ statusReq # "none" => statusGets = 1
    /\ statusReq = "done"
         => \/ /\ statusDead
               /\ statusLoading
               /\ statuses = <<>>
               /\ statusError = Undef
            \/ /\ ~statusLoading
               /\ (statuses # <<>>) # (statusError # Undef)

\* C21 witness: the one GET was answered without data while the panel was
\* mounted; the error is shown, statuses is not set, loading is false.
C21_Witness ==
    /\ statusReq = "done"
    /\ ~statusDead
    /\ statusGets = 1
    /\ ~statusLoading
    /\ statuses = <<>>
    /\ statusError = <<"TypeError: Cannot read properties of undefined">>

\* C22: in the create form at most one of submitting, error and success is
\* set in any state the form renders: the flags encode idle (none), loading,
\* success or error.
C22_CreateFlagsOneHot ==
    /\ ~(cSubmitting /\ cError # Undef)
    /\ ~(cSubmitting /\ cSuccess # Undef)
    /\ ~(cError # Undef /\ cSuccess # Undef)

\* C22 witness: a second submit was made while the success of the first was
\* on screen (its redirect timer still running): the form shows loading only.
C22_Witness ==
    /\ cPosts = 2
    /\ cTimers > 0
    /\ cSubmitting
    /\ cError = Undef
    /\ cSuccess = Undef

\* C23: the edit form shows its success state (UPDATE_SUCCESSFUL) only
\* between a successful response and the redirect: no PATCH is outstanding
\* and a redirect timer is running.
C23_EditSuccessAfterSuccess ==
    EditSuccessShown => (eReq = <<>> /\ eTimers > 0)

\* C24: in the addons list, once every fetch issued has been answered and
\* no failure is shown, the addons and the pagination on screen are those of
\* the request issued last, the one for the page and limit of the search
\* params.
C24_LatestRequestWins ==
    (lIssued > 0 /\ lReqs = {} /\ lErr = Undef)
        => /\ lAddons.page = lPage /\ lAddons.limit = lLimit
           /\ lPagination.currentPage = lPage /\ lPagination.limit = lLimit

\* C25: in the addons list loading is true whenever a fetch is outstanding.
C25_LoadingWhileOutstanding == lReqs # {} => lLoading

\* C26: in the addons-list Pagination, from a currentPage inside
\* [1, totalPages], every enabled button requests a page inside
\* [1, totalPages], so every sequence of clicks stays inside; PREV is
\* disabled exactly on page 1 and NEXT exactly on page totalPages, and an
\* enabled PREV / NEXT moves by one page.
C26_NavigationInRange ==
    listProps # NoProps =>
        LET c == listProps.currentPage
            t == listProps.totalPages
        IN  /\ c \in 1..t
            /\ ListClickTargets(c, t) \subseteq 1..t
            /\ ListPrevDisabled(c) <=> c = 1
            /\ ListNextDisabled(c, t) <=> c = t
            /\ ~ListPrevDisabled(c) => ListPrev(c) = c - 1
            /\ ~ListNextDisabled(c, t) => ListNext(c, t) = c + 1

\* C26 witness: the Pagination shows the last of more pages than the
\* window holds: NEXT is disabled, PREV and the first-page button are not.
C26_Witness ==
    /\ listProps # NoProps
    /\ ListNextDisabled(listProps.currentPage, listProps.totalPages)
    /\ ~ListPrevDisabled(listProps.currentPage)
    /\ listPages[1] > 1
    /\ 1 \in ListClickTargets(listProps.currentPage, listProps.totalPages)

\* C27: the edit form never sends a PATCH whose value was derived from an
\* empty (or blank) value field.
C27_EmptyValueRejected ==
    eReq # <<>> => Trim(eFields.value) # <<>>

\* a field that is missing or empty
MissingText(x) == x = Undef \/ x = <<>>

\* a field that is present and is not the text of a number
NonNumericText(x) == ~MissingText(x) /\ (Trim(x) = <<>> \/ ~IsFinite(Number(x)))

\* a field that starts, after white space and a sign, with a decimal number
LeadsWithNumber(x) ==
    LET u == Unsigned(TrimStart(x))
    IN  /\ u # <<>>
        /\ \/ IsDigit(u[1])
           \/ u[1] = "." /\ Len(u) > 1 /\ IsDigit(u[2])

\* memory.usagePercent of a snapshot, Undef without a memory object
UsagePercentOf(api) ==
    IF api.memory.present THEN api.memory.usagePercent ELSE Undef

C29_DisconnectedIsBad ==
    StatusShown =>
        ( statusData[1].dbStatus
              \in { Capitalize(<<"d", "i", "s">> \o ConnectedText),
                    <<"n", "o", "t", " ">> \o ConnectedText }
          => /\ statusLevels[2] = "bad"
             /\ statuses[2].value = <<"DISCONNECTED">>
             /\ statuses[2].variant = "destructive" )

\* C30: once the create form has left the screen, router.replace("/addons")
\* is not executed any more: a redirect still pending does not fire.
C30_NoRedirectAfterTeardown ==
    [][ ~cMounted => cRedirects' = cRedirects ]_vars

====
